---- MODULE Spec2Model ----
(***************************************************************************)
(* FreeBudsSE2win: the SPP packet codec (huawei_spp.py) and the SPPWorker  *)
(* command loop (main.py).                                                 *)
(*                                                                         *)
(* Bytes are the integers 0..255, a bytes object is a sequence of them.    *)
(* Python's 0-based index i is the TLA+ index i + 1.                       *)
(***************************************************************************)
EXTENDS Integers, Sequences, FiniteSets, TLC

(***************************************************************************)
(* Bounds of the model.                                                    *)
(***************************************************************************)
\* commands submitted with queue_command in one behaviour
MaxCmds == 2
\* the same, in the specification with fairness
MaxLiveCmds == 1
\* fields of a packet handed to send_packet in the codec specification
MaxFields == 2
\* the longest part of the stream that arrives before a read gives up, when
\* not all of it arrives
MaxPartial == 12
\* how many manufacturer entries an advertisement carries at most
MaxEntries == 2

(***************************************************************************)
(* Program constants.                                                      *)
(***************************************************************************)
\* the sync byte 0x5A
SYNC == 90
\* the response window of get_battery, in seconds
WINDOW == 3
\* sock.settimeout(5): the timeout of one recv, in seconds
SOCK_TIMEOUT == 5

Min(a, b) == IF a < b THEN a ELSE b

(***************************************************************************)
(* Python slices: data[lo:hi] with 0 <= lo, clamped to the object's end.   *)
(***************************************************************************)
Slice(data, lo, hi) ==
    LET h == Min(hi, Len(data))
    IN  IF lo >= h THEN <<>> ELSE SubSeq(data, lo + 1, h)

(***************************************************************************)
(* crc16_xmodem: poly 0x1021, init 0x0000, MSB first, 16-bit register.     *)
(***************************************************************************)
RECURSIVE BitXor(_, _)
BitXor(a, b) ==
    IF a = 0 THEN b
    ELSE IF b = 0 THEN a
    ELSE (((a % 2) + (b % 2)) % 2) + 2 * BitXor(a \div 2, b \div 2)

\* (the polynomial of CRC-16/ARC, 0x8005, in place of 0x1021)
MutCrcRoundPoly(crc) ==
    IF (crc \div 32768) % 2 = 1
    THEN BitXor(crc * 2, 32773) % 65536
    ELSE (crc * 2) % 65536

\* one pass of the inner loop: test bit 15, shift, xor the polynomial, mask
CrcRound(crc) ==
    IF (crc \div 32768) % 2 = 1
    THEN BitXor(crc * 2, 4129) % 65536
    ELSE (crc * 2) % 65536

\* (the register is computed before it is passed on: IF c >= 0)
RECURSIVE CrcRounds(_, _)
CrcRounds(crc, n) ==
    IF n = 0 THEN crc
    ELSE LET c == CrcRound(crc)
         IN  IF c >= 0 THEN CrcRounds(c, n - 1) ELSE 0

\* crc ^= (byte << 8), then the 8 rounds
CrcByte(crc, byte) == CrcRounds(BitXor(crc, byte * 256), 8)

\* for byte in data, over data[lo..hi]; the range is halved to keep the
\* evaluation shallow, the bytes are still taken in order
RECURSIVE CrcFold(_, _, _, _)
CrcFold(crc, data, lo, hi) ==
    IF lo > hi THEN crc
    ELSE IF lo = hi THEN CrcByte(crc, data[lo])
    ELSE LET mid == (lo + hi) \div 2
             c == CrcFold(crc, data, lo, mid)
         IN  IF c >= 0 THEN CrcFold(c, data, mid + 1, hi) ELSE 0

\* struct.pack(">H", n)
PackU16(n) == <<n \div 256, n % 256>>

\* (the checksum packed low byte first)
MutCrcLowByteFirst(data) ==
    LET crc == CrcFold(0, data, 1, Len(data))
    IN  <<crc % 256, crc \div 256>>

crc16_xmodem(data) == PackU16(CrcFold(0, data, 1, Len(data)))

(***************************************************************************)
(* send_packet: the bytes it builds.  A field is <<type, value>>.          *)
(***************************************************************************)
\* (the length byte of a field left out)
RECURSIVE MutPayloadNoLength(_, _)
MutPayloadNoLength(params, i) ==
    IF i > Len(params) THEN <<>>
    ELSE <<params[i][1]>> \o params[i][2] \o MutPayloadNoLength(params, i + 1)

RECURSIVE Payload(_, _)
Payload(params, i) ==
    IF i > Len(params) THEN <<>>
    ELSE <<params[i][1], Len(params[i][2])>> \o params[i][2] \o Payload(params, i + 1)

MutPackableTypesOnly(params) ==
    \A i \in 1..Len(params) : params[i][1] \in 0..255

\* struct.pack("B", x) and struct.pack(">H", x) raise struct.error out of range
Packable(params) ==
    /\ \A i \in 1..Len(params) :
          /\ params[i][1] \in 0..255
          /\ Len(params[i][2]) <= 255
    /\ 3 + Len(Payload(params, 1)) <= 65535

MutBuildPacketLength(cmd_id, params) ==
    LET payload == Payload(params, 1)
        length  == 2 + Len(payload)
        packet  == <<SYNC>> \o PackU16(length) \o <<0>> \o cmd_id \o payload
    IN  packet \o crc16_xmodem(packet)

\* lines 66-84
BuildPacket(cmd_id, params) ==
    LET payload == Payload(params, 1)
        length  == 1 + 2 + Len(payload)
        packet  == <<SYNC>> \o PackU16(length) \o <<0>> \o cmd_id \o payload
    IN  packet \o crc16_xmodem(packet)

(***************************************************************************)
(* _read_exact(n) on a stream of which only the first `avail` bytes arrive *)
(* before a recv times out, fails or reports end of stream: the loop       *)
(* breaks and the bytes read so far are returned.                          *)
(***************************************************************************)
NoPacket == <<>>

\* how much of the stream s may arrive before a read gives up
Arrivals(s) == (0..Min(Len(s), MaxPartial)) \cup {Len(s)}

ReadExact(s, n, avail) == Slice(s, 0, Min(n, avail))

\* struct.unpack(">H", header[1:3])[0]
UnpackU16(header) == header[2] * 256 + header[3]

(***************************************************************************)
(* receive_packet: ret is the packet or NoPacket (None), used the number   *)
(* of bytes taken off the stream, short whether a read was cut short.      *)
(***************************************************************************)
MutReceiveNoLengthCheck(s, avail) ==
    LET header == ReadExact(s, 4, avail)
    IN  IF Len(header) < 4 \/ header[1] # SYNC
        THEN [ret |-> NoPacket, used |-> Len(header), short |-> Len(header) < 4]
        ELSE LET remaining_len == UnpackU16(header) - 1 + 2
                 body_crc == ReadExact(Slice(s, 4, Len(s)), remaining_len, avail - 4)
             IN  [ret |-> header \o body_crc, used |-> 4 + Len(body_crc),
                  short |-> Len(body_crc) < remaining_len]

\* (the first byte of the header is not tested)
MutReceiveNoSyncCheck(s, avail) ==
    LET header == ReadExact(s, 4, avail)
    IN  IF Len(header) < 4
        THEN [ret |-> NoPacket, used |-> Len(header), short |-> TRUE]
        ELSE LET remaining_len == UnpackU16(header) - 1 + 2
                 body_crc == ReadExact(Slice(s, 4, Len(s)), remaining_len, avail - 4)
             IN  IF Len(body_crc) < remaining_len
                 THEN [ret |-> NoPacket, used |-> 4 + Len(body_crc), short |-> TRUE]
                 ELSE [ret |-> header \o body_crc, used |-> 4 + Len(body_crc),
                       short |-> FALSE]

\* (the checksum is verified, as in the lines commented out)
MutReceiveVerifiesCrc(s, avail) ==
    LET header == ReadExact(s, 4, avail)
    IN  IF Len(header) < 4 \/ header[1] # SYNC
        THEN [ret |-> NoPacket, used |-> Len(header), short |-> Len(header) < 4]
        ELSE LET remaining_len == UnpackU16(header) - 1 + 2
                 body_crc == ReadExact(Slice(s, 4, Len(s)), remaining_len, avail - 4)
                 full_data == header \o body_crc
             IN  IF Len(body_crc) < remaining_len
                 THEN [ret |-> NoPacket, used |-> 4 + Len(body_crc), short |-> TRUE]
                 ELSE IF crc16_xmodem(Slice(full_data, 0, Len(full_data) - 2))
                             # Slice(full_data, Len(full_data) - 2, Len(full_data))
                 THEN [ret |-> NoPacket, used |-> 4 + Len(body_crc), short |-> FALSE]
                 ELSE [ret |-> full_data, used |-> 4 + Len(body_crc), short |-> FALSE]

ReceivePacket(s, avail) ==
    LET header == ReadExact(s, 4, avail)
    IN  IF Len(header) < 4 \/ header[1] # SYNC
        THEN [ret |-> NoPacket, used |-> Len(header), short |-> Len(header) < 4]
        ELSE LET remaining_len == UnpackU16(header) - 1 + 2
                 body_crc == ReadExact(Slice(s, 4, Len(s)), remaining_len, avail - 4)
             IN  IF Len(body_crc) < remaining_len
                 THEN [ret |-> NoPacket, used |-> 4 + Len(body_crc), short |-> TRUE]
                 ELSE [ret |-> header \o body_crc, used |-> 4 + Len(body_crc),
                       short |-> FALSE]

(***************************************************************************)
(* parse_battery_response: the TLV walk and the reading it builds.         *)
(***************************************************************************)
\* the fields <<t, v>> the while loop visits, from Python index idx on
RECURSIVE TlvFields(_, _)
TlvFields(data, idx) ==
    IF idx < Len(data) - 2
    THEN LET t == data[idx + 1]
             l == data[idx + 2]
             v == Slice(data, idx + 2, idx + 2 + l)
         IN  << <<t, v>> >> \o TlvFields(data, idx + 2 + l)
    ELSE <<>>

\* the indexes of data the same loop reads: data[idx], data[idx+1] and the
\* bytes the slice data[idx+2 : idx+2+l] holds
RECURSIVE TlvReads(_, _)
TlvReads(data, idx) ==
    IF idx < Len(data) - 2
    THEN LET l == data[idx + 2]
         IN  {idx, idx + 1}
                 \cup ((idx + 2)..(Min(idx + 2 + l, Len(data)) - 1))
                 \cup TlvReads(data, idx + 2 + l)
    ELSE {}

\* int.from_bytes(v, 'big')
RECURSIVE IntFromBytes(_)
IntFromBytes(v) ==
    IF Len(v) = 0 THEN 0
    ELSE 256 * IntFromBytes(SubSeq(v, 1, Len(v) - 1)) + v[Len(v)]

EmptyDict == [k \in {} |-> 0]

\* (right and case taken from the wrong bytes)
MutParseFieldSwapped(res, f) ==
    LET t  == f[1]
        v  == f[2]
        r1 == IF t = 1 THEN ("global" :> IntFromBytes(v)) @@ res ELSE res
    IN  IF t = 2 /\ Len(v) >= 3
        THEN ("left" :> v[1]) @@ ("right" :> v[3]) @@ ("case" :> v[2]) @@ r1
        ELSE r1

\* the body of the loop for one field: the updates of res
ParseField(res, f) ==
    LET t  == f[1]
        v  == f[2]
        r1 == IF t = 1 THEN ("global" :> IntFromBytes(v)) @@ res ELSE res
    IN  IF t = 2 /\ Len(v) >= 3
        THEN ("left" :> v[1]) @@ ("right" :> v[2]) @@ ("case" :> v[3]) @@ r1
        ELSE r1

RECURSIVE ParseFields(_, _, _)
ParseFields(res, fields, i) ==
    IF i > Len(fields) THEN res
    ELSE ParseFields(ParseField(res, fields[i]), fields, i + 1)

\* none: the function returned None; d: the dict it returned otherwise
parse_battery_response(data) ==
    IF Len(data) < 8 THEN [none |-> TRUE, d |-> EmptyDict]
    ELSE [none |-> FALSE, d |-> ParseFields(EmptyDict, TlvFields(data, 6), 1)]

\* (is not None, in place of the truth of the result)
MutTruthyNotNone(r) == ~r.none

\* Python truth of the result: not None and not the empty dict
Truthy(r) == ~r.none /\ DOMAIN r.d # {}

(***************************************************************************)
(* State.                                                                  *)
(***************************************************************************)
VARIABLES
    \* SPPWorker
    running,        \* self.running
    command_queue,  \* self.command_queue, a list of <<cmd, val>>
    wpc,            \* where run() is
    status,         \* the last status_changed signal emitted ("" before any)
    battery,        \* the last battery_received signal emitted (<<>> before any)
    \* HuaweiSPPClient
    connected,      \* self.connected
    sock,           \* self.sock: "None", "open" or "closed"
    elapsed,        \* time.time() - start_time in get_battery, in seconds
    resp,           \* what the last receive_packet call returned
    result,         \* what get_battery returns
    \* the transport
    stream,         \* the bytes the peer has written and the client not yet read
    sent,           \* the bytes of the last sock.send
    \* history
    submitted,      \* every command handed to queue_command, in order
    nstarted,       \* how many commands run() has popped
    cur,            \* the command in flight, the locals cmd, val of run() while
                    \* its handler runs (NoCmd when none is in flight)
    ioerr,          \* a send or recv of the command in flight failed
    src,            \* the packet the result of get_battery was parsed from
    seen,           \* the length of the queue when run() last tested it
    nstop,          \* nstarted when stop() was called (-1: not called)
    \* the codec specification
    cphase,         \* "idle", "noise" or "sent"
    tx,             \* the arguments of the send_packet call
    pre,            \* the stream at the last receive_packet call
    lastAvail,      \* the bytes that arrived in time in that call (-1: no call yet)
    buffered,       \* every call so far found the whole stream already arrived
    returned,       \* the packets receive_packet has returned
    \* FreeBudsWindow
    spp_worker,     \* self.spp_worker: "None" or "worker"
    uipc,           \* where the GUI thread is: "idle", or "wait" in spp_worker.wait()
    \* the client specification
    call,           \* the last call of a client method: what it was given, the
                    \* state it found and what it did
    \* the functions on their own
    data,           \* the bytes handed to the function
    fields,         \* the fields data was built from, when it is a response
    out,            \* the function called and what it returned
    \* the scanner
    device,         \* the advertisement handed over: device.address, device.name
                    \* and advertisement_data.manufacturer_data
    configured,     \* DEVICE_ADDRESSES as the build has it
    scan            \* the function called, what it returned and what it emitted

workerVars == <<running, command_queue, wpc, status, battery>>
clientVars == <<connected, sock, elapsed, resp, result>>
wireVars   == <<stream, sent>>
histVars   == <<submitted, nstarted, cur, ioerr, src, seen, nstop>>
codecVars  == <<cphase, tx, pre, lastAvail, buffered, returned>>
uiVars     == <<spp_worker, uipc>>
scanVars   == <<device, configured, scan>>
unitVars   == <<data, fields, out, scanVars>>

vars == <<workerVars, clientVars, wireVars, histVars, codecVars, uiVars, call, unitVars>>

NoCmd == <<>>
NoTx == [cmd_id |-> <<>>, params |-> <<>>]
NoResult == [none |-> TRUE, d |-> EmptyDict]
NoOut == [op |-> "", val |-> <<>>]
NoDevice == [address |-> <<>>, name |-> <<>>, mdata |-> <<>>]
NoScan == [op |-> "", ret |-> <<>>, signal |-> <<>>]
NoCall ==
    [op |-> "", how |-> "", raised |-> FALSE, ret |-> "", opened |-> FALSE,
     conn |-> FALSE, sk |-> "None", sent |-> <<>>]

\* Text is a sequence of one-character strings; None and "" are both <<>>,
\* the code tests them alike (if device.name, if device.address).
AddrColon == <<"9", "0", ":", "F", "6", ":", "4", "4", ":", "A", "A", ":", "E", "E", ":", "6", "7">>
AddrHyphen ==
    <<"9", "0", "-", "F", "6", "-", "4", "4", "-", "A", "A", "-", "E", "E", "-", "6", "7">>
AddrBare == <<"9", "0", "F", "6", "4", "4", "A", "A", "E", "E", "6", "7">>
NameFull ==
    <<"H", "U", "A", "W", "E", "I", " ", "F", "r", "e", "e", "B", "u", "d", "s", " ",
      "S", "E", " ", "2">>
NameShort == <<"F", "r", "e", "e", "B", "u", "d", "s", " ", "S", "E", " ", "2">>

DEVICE_NAMES == <<NameFull, NameShort>>
DEVICE_ADDRESSES == <<AddrColon, AddrHyphen, AddrBare>>
HUAWEI_COMPANY_ID == 342

\* CMD_BATTERY_READ and CMD_LOW_LATENCY
CMD_BATTERY == <<1, 8>>
MutCmdLowLatency == <<43, 109>>
CMD_LOW_LATENCY == <<43, 108>>

MutBatteryParamsTwo == << <<1, <<>> >>, <<2, <<>> >> >>

\* the params of the battery query
BatteryParams == << <<1, <<>> >>, <<2, <<>> >>, <<3, <<>> >> >>

\* the commands the window submits: spp_refresh_battery, spp_set_low_latency
Commands ==
    { <<"get_battery", "None">>,
      <<"set_low_latency", "True">>,
      <<"set_low_latency", "False">> }

Drop(s, n) == Slice(s, n, Len(s))

Init ==
    /\ running = TRUE
    /\ command_queue = <<>>
    /\ wpc = "start"
    /\ status = ""
    /\ battery = <<>>
    /\ connected = FALSE
    /\ sock = "None"
    /\ elapsed = 0
    /\ resp = NoPacket
    /\ result = NoResult
    /\ stream = <<>>
    /\ sent = <<>>
    /\ submitted = <<>>
    /\ nstarted = 0
    /\ cur = NoCmd
    /\ ioerr = FALSE
    /\ src = NoPacket
    /\ seen = 0
    /\ nstop = -1
    /\ cphase = "idle"
    /\ tx = NoTx
    /\ pre = <<>>
    /\ lastAvail = -1
    /\ buffered = TRUE
    /\ returned = {}
    /\ spp_worker = "worker"
    /\ uipc = "idle"
    /\ call = NoCall
    /\ data = <<>>
    /\ fields = <<>>
    /\ out = NoOut
    /\ device = NoDevice
    /\ configured = DEVICE_ADDRESSES
    /\ scan = NoScan

(***************************************************************************)
(* HuaweiSPPClient.connect and disconnect.  outcome is what the transport  *)
(* does: "ok", "socket_error" (socket.socket raises) or "connect_error"    *)
(* (sock.connect raises or times out).                                     *)
(***************************************************************************)
Outcomes == {"ok", "socket_error", "connect_error"}

\* opened: socket.socket() returned a new socket
MutConnectIgnoresFailure(conn, sk, outcome) ==
    IF conn THEN [connected |-> TRUE, sock |-> sk, ret |-> TRUE, opened |-> FALSE]
    ELSE IF outcome = "ok"
         THEN [connected |-> TRUE, sock |-> "open", ret |-> TRUE, opened |-> TRUE]
    ELSE IF outcome = "connect_error"
         THEN [connected |-> TRUE, sock |-> "closed", ret |-> TRUE, opened |-> TRUE]
         ELSE [connected |-> FALSE,
               sock |-> IF sk = "None" THEN "None" ELSE "closed",
               ret |-> FALSE, opened |-> FALSE]

\* (the except branch without sock.close())
MutConnectLeavesOpen(conn, sk, outcome) ==
    IF conn THEN [connected |-> TRUE, sock |-> sk, ret |-> TRUE, opened |-> FALSE]
    ELSE IF outcome = "ok"
         THEN [connected |-> TRUE, sock |-> "open", ret |-> TRUE, opened |-> TRUE]
    ELSE IF outcome = "connect_error"
         THEN [connected |-> FALSE, sock |-> "open", ret |-> FALSE, opened |-> TRUE]
         ELSE [connected |-> FALSE, sock |-> sk, ret |-> FALSE, opened |-> FALSE]

connect(conn, sk, outcome) ==
    IF conn THEN [connected |-> TRUE, sock |-> sk, ret |-> TRUE, opened |-> FALSE]
    ELSE IF outcome = "ok"
         THEN [connected |-> TRUE, sock |-> "open", ret |-> TRUE, opened |-> TRUE]
    ELSE IF outcome = "connect_error"
         THEN [connected |-> FALSE, sock |-> "closed", ret |-> FALSE, opened |-> TRUE]
         ELSE [connected |-> FALSE,
               sock |-> IF sk = "None" THEN "None" ELSE "closed",
               ret |-> FALSE, opened |-> FALSE]

\* close_ok: whether sock.close() returns or raises
MutDisconnectRaises(conn, sk, close_ok) ==
    IF sk # "None" /\ ~close_ok
    THEN [connected |-> conn, sock |-> sk, raised |-> TRUE]
    ELSE [connected |-> FALSE, sock |-> "None", raised |-> FALSE]

disconnect(conn, sk, close_ok) ==
    [connected |-> FALSE, sock |-> "None", raised |-> FALSE]

(***************************************************************************)
(* send_packet: raises when not connected, when struct.pack rejects a      *)
(* field, and when sock.send fails (send_ok false).                        *)
(***************************************************************************)
send_packet(conn, cmd_id, params, send_ok) ==
    IF ~conn THEN [raised |-> TRUE, error |-> "not_connected", bytes |-> <<>>]
    ELSE IF ~Packable(params)
         THEN [raised |-> TRUE, error |-> "struct", bytes |-> <<>>]
         ELSE IF ~send_ok
              THEN [raised |-> TRUE, error |-> "send", bytes |-> <<>>]
              ELSE [raised |-> FALSE, error |-> "",
                    bytes |-> BuildPacket(cmd_id, params)]

receive_packet(conn, s, avail) ==
    IF ~conn
    THEN [raised |-> TRUE, ret |-> NoPacket, used |-> 0, short |-> FALSE]
    ELSE LET r == ReceivePacket(s, avail)
         IN  [raised |-> FALSE, ret |-> r.ret, used |-> r.used, short |-> r.short]

\* get_battery: len(resp) >= 6 and resp[4:6] == b"\x01\x08"
MutAnyCommandId(r) == Len(r) >= 6

IsBatteryResp(r) == Len(r) >= 6 /\ Slice(r, 4, 6) = CMD_BATTERY

\* get_battery: while time.time() - start_time < 3.0
MutNoWindow(t) == TRUE

InWindow(t) == t < WINDOW

(***************************************************************************)
(* SPPWorker: the queue.                                                   *)
(***************************************************************************)
MutEnqueueOverwrite(q, c) == <<c>>

\* self.command_queue.append((cmd, val))
Enqueue(q, c) == Append(q, c)

MutPopLast(q) == [item |-> q[Len(q)], rest |-> SubSeq(q, 1, Len(q) - 1)]

\* self.command_queue.pop(0)
PopFirst(q) == [item |-> Head(q), rest |-> Tail(q)]

MutLoopForever(r) == TRUE

\* while self.running
LoopCond(r) == r

\* spp_refresh_battery, spp_set_low_latency: if self.spp_worker
HasWorker == spp_worker = "worker"

\* called on the GUI thread, which is not inside toggle_spp_connection
queue_command(c) ==
    /\ uipc = "idle"
    /\ HasWorker
    /\ Len(submitted) < MaxCmds
    /\ command_queue' = Enqueue(command_queue, c)
    /\ submitted' = Append(submitted, c)
    /\ UNCHANGED <<running, wpc, status, battery, clientVars, wireVars,
                   nstarted, cur, ioerr, src, seen, nstop, codecVars, uiVars, call, unitVars>>

\* toggle_spp_connection, lines 409-411: the worker is there and running,
\* stop() is called and the GUI thread goes to wait()
stop ==
    /\ uipc = "idle"
    /\ spp_worker = "worker" /\ running
    /\ running' = FALSE
    /\ nstop' = nstarted
    /\ uipc' = "wait"
    /\ UNCHANGED <<command_queue, wpc, status, battery, clientVars, wireVars,
                   submitted, nstarted, cur, ioerr, src, seen, codecVars,
                   spp_worker, call, unitVars>>

\* toggle_spp_connection, lines 412-417: wait() returns when run() has
\* returned, the worker is dropped
toggle_wait ==
    /\ uipc = "wait"
    /\ wpc = "done"
    /\ spp_worker' = "None"
    /\ uipc' = "idle"
    /\ UNCHANGED <<workerVars, clientVars, wireVars, histVars, codecVars, call,
                   unitVars>>

\* toggle_spp_connection, lines 418-441: no worker, or one that is not
\* running: a new SPPWorker with a new client is made and started.  What is
\* recorded of the worker (its signals, its commands) starts afresh.
toggle_connect ==
    /\ uipc = "idle"
    /\ ~(spp_worker = "worker" /\ running)
    /\ spp_worker' = "worker"
    /\ running' = TRUE
    /\ command_queue' = <<>>
    /\ wpc' = "start"
    /\ status' = ""
    /\ battery' = <<>>
    /\ connected' = FALSE
    /\ sock' = "None"
    /\ elapsed' = 0
    /\ resp' = NoPacket
    /\ result' = NoResult
    /\ stream' = <<>>
    /\ sent' = <<>>
    /\ submitted' = <<>>
    /\ nstarted' = 0
    /\ cur' = NoCmd
    /\ ioerr' = FALSE
    /\ src' = NoPacket
    /\ seen' = 0
    /\ nstop' = -1
    /\ UNCHANGED <<codecVars, uipc, call, unitVars>>

(***************************************************************************)
(* SPPWorker.run, step by step.                                            *)
(***************************************************************************)
\* lines 153-158: connect, report, return on failure
run_connect ==
    /\ wpc = "start"
    /\ \E outcome \in Outcomes :
         LET c == connect(connected, sock, outcome)
         IN  /\ connected' = c.connected
             /\ sock' = c.sock
             /\ status' = IF c.ret THEN "connected" ELSE "connect_failed"
             /\ wpc' = IF c.ret THEN "loop" ELSE "done"
    /\ UNCHANGED <<running, command_queue, battery, elapsed, resp, result,
                   wireVars, histVars, codecVars, uiVars, call, unitVars>>

\* line 160
run_loop ==
    /\ wpc = "loop"
    /\ wpc' = IF LoopCond(running) THEN "check" ELSE "exit"
    /\ UNCHANGED <<running, command_queue, status, battery, clientVars,
                   wireVars, histVars, codecVars, uiVars, call, unitVars>>

\* line 161
run_check ==
    /\ wpc = "check"
    /\ wpc' = IF command_queue # <<>> THEN "pop" ELSE "sleep"
    /\ seen' = Len(command_queue)
    /\ UNCHANGED <<running, command_queue, status, battery, clientVars,
                   wireVars, submitted, nstarted, cur, ioerr, src, nstop, codecVars, uiVars, call, unitVars>>

\* lines 162-165, 173: pop and dispatch on cmd
run_pop ==
    /\ wpc = "pop"
    /\ LET p == PopFirst(command_queue)
       IN  /\ command_queue' = p.rest
           /\ cur' = p.item
           /\ nstarted' = nstarted + 1
           /\ ioerr' = FALSE
           /\ seen' = 0
           /\ IF p.item[1] = "get_battery"
              THEN status' = "reading" /\ wpc' = "gb_send"
              ELSE IF p.item[1] = "set_low_latency"
                   THEN status' = status /\ wpc' = "ll_send"
                   ELSE status' = status /\ wpc' = "sleep"
    /\ UNCHANGED <<running, battery, clientVars, wireVars, submitted, src, nstop,
                   codecVars, uiVars, call, unitVars>>

\* get_battery, lines 149-157: send the query, start the window
gb_send ==
    /\ wpc = "gb_send"
    /\ \E send_ok \in BOOLEAN :
         LET r == send_packet(connected, CMD_BATTERY, BatteryParams, send_ok)
         IN  IF r.raised
             THEN /\ wpc' = "except"
                  /\ ioerr' = (ioerr \/ r.error = "send")
                  /\ UNCHANGED <<sent, elapsed>>
             ELSE /\ wpc' = "gb_loop"
                  /\ sent' = r.bytes
                  /\ elapsed' = 0
                  /\ UNCHANGED ioerr
    /\ UNCHANGED <<running, command_queue, status, battery, connected, sock,
                   resp, result, stream, submitted, nstarted, cur, src, seen, nstop, codecVars, uiVars, call, unitVars>>

\* get_battery, lines 158, 177-178: the window test; None when it is over
gb_loop ==
    /\ wpc = "gb_loop"
    /\ IF InWindow(elapsed)
       THEN wpc' = "gb_recv" /\ UNCHANGED <<result, src>>
       ELSE wpc' = "gb_ret" /\ result' = NoResult /\ src' = NoPacket
    /\ UNCHANGED <<running, command_queue, status, battery, connected, sock,
                   elapsed, resp, wireVars, submitted, nstarted, cur, ioerr, seen, nstop,
                   codecVars, uiVars, call, unitVars>>

\* get_battery, lines 159-175: one receive_packet call and what is done with it.
\* how: what cuts a short read, a timeout (after SOCK_TIMEOUT) or an error
gb_recv ==
    /\ wpc = "gb_recv"
    /\ \E avail \in Arrivals(stream), how \in {"timeout", "error"} :
         LET r == receive_packet(connected, stream, avail)
             parsed == parse_battery_response(r.ret)
         IN  IF r.raised
             THEN /\ wpc' = "except"
                  /\ UNCHANGED <<stream, resp, elapsed, ioerr, result, src>>
             ELSE /\ stream' = Drop(stream, r.used)
                  /\ resp' = r.ret
                  /\ elapsed' = IF r.short /\ how = "timeout"
                                THEN Min(elapsed + SOCK_TIMEOUT, WINDOW + SOCK_TIMEOUT)
                                ELSE elapsed
                  /\ ioerr' = (ioerr \/ (r.short /\ how = "error"))
                  /\ IF r.ret # NoPacket /\ IsBatteryResp(r.ret) /\ Truthy(parsed)
                     THEN wpc' = "gb_ret" /\ result' = parsed /\ src' = r.ret
                     ELSE wpc' = "gb_loop" /\ UNCHANGED <<result, src>>
    /\ UNCHANGED <<running, command_queue, status, battery, connected, sock,
                   sent, submitted, nstarted, cur, seen, nstop, codecVars, uiVars, call, unitVars>>

\* lines 167-171: what run() does with the result of get_battery
run_battery ==
    /\ wpc = "gb_ret"
    /\ IF Truthy(result) /\ "left" \in DOMAIN result.d
       THEN /\ battery' = <<result.d["left"], result.d["right"], result.d["case"]>>
            /\ status' = "battery_updated"
       ELSE /\ status' = "read_failed"
            /\ UNCHANGED battery
    /\ wpc' = "sleep"
    /\ cur' = NoCmd
    /\ result' = NoResult
    /\ src' = NoPacket
    /\ resp' = NoPacket
    /\ elapsed' = 0
    /\ UNCHANGED <<running, command_queue, connected, sock, wireVars,
                   submitted, nstarted, ioerr, seen, nstop, codecVars, uiVars, call, unitVars>>

\* set_low_latency, lines 215-216
ll_send ==
    /\ wpc = "ll_send"
    /\ \E send_ok \in BOOLEAN :
         LET val == IF cur[2] = "True" THEN <<1>> ELSE <<0>>
             r == send_packet(connected, CMD_LOW_LATENCY, << <<1, val>> >>, send_ok)
         IN  IF r.raised
             THEN /\ wpc' = "except"
                  /\ ioerr' = (ioerr \/ r.error = "send")
                  /\ UNCHANGED sent
             ELSE /\ wpc' = "ll_recv"
                  /\ sent' = r.bytes
                  /\ UNCHANGED ioerr
    /\ UNCHANGED <<running, command_queue, status, battery, clientVars,
                   stream, submitted, nstarted, cur, src, seen, nstop, codecVars, uiVars, call, unitVars>>

\* set_low_latency, line 218: return self.receive_packet()
ll_recv ==
    /\ wpc = "ll_recv"
    /\ \E avail \in Arrivals(stream), how \in {"timeout", "error"} :
         LET r == receive_packet(connected, stream, avail)
         IN  IF r.raised
             THEN /\ wpc' = "except"
                  /\ UNCHANGED <<stream, ioerr, resp>>
             ELSE /\ stream' = Drop(stream, r.used)
                  /\ ioerr' = (ioerr \/ (r.short /\ how = "error"))
                  /\ resp' = r.ret
                  /\ wpc' = "ll_ret"
    /\ UNCHANGED <<running, command_queue, status, battery, connected, sock,
                   elapsed, result, sent, submitted, nstarted, cur, src, seen, nstop,
                   codecVars, uiVars, call, unitVars>>

\* run(), lines 174-175: the result of set_low_latency is dropped
run_latency ==
    /\ wpc = "ll_ret"
    /\ status' = IF cur[2] = "True" THEN "low_latency_on" ELSE "low_latency_off"
    /\ wpc' = "sleep"
    /\ cur' = NoCmd
    /\ resp' = NoPacket
    /\ UNCHANGED <<running, command_queue, battery, connected, sock, elapsed,
                   result, wireVars, submitted, nstarted, ioerr, src, seen, nstop,
                   codecVars, uiVars, call, unitVars>>

MutNoHandler ==
    /\ wpc = "except"
    /\ wpc' = "crashed"
    /\ UNCHANGED <<running, command_queue, status, battery, clientVars,
                   wireVars, histVars, codecVars, uiVars, call, unitVars>>

\* lines 177-178: except Exception
run_except ==
    /\ wpc = "except"
    /\ status' = "command_failed"
    /\ wpc' = "sleep"
    /\ cur' = NoCmd
    /\ UNCHANGED <<running, command_queue, battery, clientVars, wireVars,
                   submitted, nstarted, ioerr, src, seen, nstop, codecVars, uiVars, call, unitVars>>

\* (run() returns after one iteration)
MutSleepReturns ==
    /\ wpc = "sleep"
    /\ wpc' = "exit"
    /\ UNCHANGED <<running, command_queue, status, battery, clientVars,
                   wireVars, histVars, codecVars, uiVars, call, unitVars>>

\* line 180
run_sleep ==
    /\ wpc = "sleep"
    /\ wpc' = "loop"
    /\ UNCHANGED <<running, command_queue, status, battery, clientVars,
                   wireVars, histVars, codecVars, uiVars, call, unitVars>>

\* lines 182-183: the socket is closed, what it still held is gone
run_exit ==
    /\ wpc = "exit"
    /\ \E close_ok \in BOOLEAN :
         LET d == disconnect(connected, sock, close_ok)
         IN  connected' = d.connected /\ sock' = d.sock
    /\ status' = "disconnected"
    /\ wpc' = "done"
    /\ stream' = <<>>
    /\ UNCHANGED <<running, command_queue, battery, elapsed, resp, result,
                   sent, histVars, codecVars, uiVars, call, unitVars>>

(***************************************************************************)
(* The environment of the worker: time and the peer.                       *)
(***************************************************************************)
\* a second passes while get_battery waits
Tick ==
    /\ wpc \in {"gb_loop", "gb_recv"}
    /\ elapsed < WINDOW
    /\ elapsed' = elapsed + 1
    /\ UNCHANGED <<workerVars, connected, sock, resp, result, wireVars, histVars,
                   codecVars, uiVars, call, unitVars>>

\* the frames of the peer, each with the CRC-16/XMODEM of its bytes:
\* a battery response with the field (2, 40 45 99), the same under the
\* command id 2B 6C, a battery response without fields, and one with the
\* field (1, 99)
RespBattery == <<90, 0, 8, 0, 1, 8, 2, 3, 40, 45, 99, 83, 78>>
\* the same with 200 where the left level is
RespHigh == <<90, 0, 8, 0, 1, 8, 2, 3, 200, 45, 99, 243, 127>>
RespOther == <<90, 0, 8, 0, 43, 108, 2, 3, 40, 45, 99, 151, 79>>
RespEmpty == <<90, 0, 3, 0, 1, 8, 223, 115>>
RespGlobal == <<90, 0, 6, 0, 1, 8, 1, 1, 99, 53, 204>>
\* a frame of length 1: the header and two more bytes, 01 08
RespShort == <<SYNC, 0, 1, 0>> \o CMD_BATTERY
Noise == <<0>>

DeviceFrames ==
    {RespBattery, RespHigh, RespOther, RespEmpty, RespGlobal, RespShort, Noise}

\* the peer writes a frame
device_send ==
    /\ connected
    /\ stream = <<>>
    /\ \E f \in DeviceFrames : stream' = f
    /\ UNCHANGED <<workerVars, clientVars, sent, histVars, codecVars, uiVars, call, unitVars>>

Worker ==
    \/ run_connect
    \/ run_loop
    \/ run_check
    \/ run_pop
    \/ gb_send
    \/ gb_loop
    \/ gb_recv
    \/ run_battery
    \/ ll_send
    \/ ll_recv
    \/ run_latency
    \/ run_except
    \/ run_sleep
    \/ run_exit

Next ==
    \/ \E c \in Commands : queue_command(c)
    \/ stop
    \/ toggle_wait
    \/ toggle_connect
    \/ Worker
    \/ Tick
    \/ device_send

Spec == Init /\ [][Next]_vars

NextLive ==
    \/ \E c \in Commands : Len(submitted) < MaxLiveCmds /\ queue_command(c)
    \/ stop
    \/ toggle_wait
    \/ toggle_connect
    \/ Worker
    \/ Tick
    \/ device_send

\* the worker thread is scheduled and time passes
FairSpec == Init /\ [][NextLive]_vars /\ WF_vars(Worker) /\ WF_vars(Tick)

(***************************************************************************)
(* The codec on its own: a connected client whose transport hands back     *)
(* what was written to it, after whatever the line held before.            *)
(***************************************************************************)
\* a value of 255 bytes, the longest a length byte can announce
Value255 == [i \in 1..255 |-> 7]

CodecValues == {<<>>, <<40, 45, 99>>, <<SYNC, 0>>}
CodecFields == {<<t, v>> : t \in {1, 2}, v \in CodecValues}
CodecCmdIds == {CMD_BATTERY, CMD_LOW_LATENCY}

RECURSIVE SeqsUpTo(_, _)
SeqsUpTo(S, n) ==
    IF n = 0 THEN {<<>>}
    ELSE LET shorter == SeqsUpTo(S, n - 1)
         IN  shorter \cup {Append(q, x) : q \in shorter, x \in S}

\* up to MaxFields short fields, or the one longest field
CodecParams == SeqsUpTo(CodecFields, MaxFields) \cup {<< <<2, Value255>> >>}

\* what the line may hold before the packet
Garbage == {<<0>>, <<1, 2, 3, 4>>, <<SYNC, 0, 2, 0>>}

InitCodec ==
    /\ running = TRUE
    /\ command_queue = <<>>
    /\ wpc = "done"
    /\ status = ""
    /\ battery = <<>>
    /\ connected = TRUE
    /\ sock = "open"
    /\ elapsed = 0
    /\ resp = NoPacket
    /\ result = NoResult
    /\ stream = <<>>
    /\ sent = <<>>
    /\ submitted = <<>>
    /\ nstarted = 0
    /\ cur = NoCmd
    /\ ioerr = FALSE
    /\ src = NoPacket
    /\ seen = 0
    /\ nstop = -1
    /\ cphase = "idle"
    /\ tx = NoTx
    /\ pre = <<>>
    /\ lastAvail = -1
    /\ buffered = TRUE
    /\ returned = {}
    /\ spp_worker = "None"
    /\ uipc = "idle"
    /\ call = NoCall
    /\ data = <<>>
    /\ fields = <<>>
    /\ out = NoOut
    /\ device = NoDevice
    /\ configured = DEVICE_ADDRESSES
    /\ scan = NoScan

\* bytes that are no packet arrive first
codec_noise ==
    /\ cphase = "idle"
    /\ \E g \in Garbage : stream' = g
    /\ cphase' = "noise"
    /\ UNCHANGED <<workerVars, clientVars, sent, histVars, tx, pre, lastAvail,
                   buffered, returned, uiVars, call, unitVars>>

\* send_packet(cmd_id, params); the peer echoes the bytes
codec_send ==
    /\ cphase \in {"idle", "noise"}
    /\ \E cmd_id \in CodecCmdIds, params \in CodecParams :
         LET r == send_packet(connected, cmd_id, params, TRUE)
         IN  /\ ~r.raised
             /\ sent' = r.bytes
             /\ stream' = stream \o r.bytes
             /\ tx' = [cmd_id |-> cmd_id, params |-> params]
    /\ cphase' = "sent"
    /\ UNCHANGED <<workerVars, clientVars, histVars, pre, lastAvail, buffered,
                   returned, uiVars, call, unitVars>>

\* one receive_packet call; avail bytes arrive before a read gives up
codec_receive ==
    /\ cphase = "sent"
    /\ \E avail \in Arrivals(stream) :
         LET r == receive_packet(connected, stream, avail)
         IN  /\ ~r.raised
             /\ resp' = r.ret
             /\ stream' = Drop(stream, r.used)
             /\ pre' = stream
             /\ lastAvail' = avail
             /\ buffered' = (buffered /\ avail = Len(stream))
             /\ returned' = IF r.ret # NoPacket THEN returned \cup {r.ret}
                            ELSE returned
    /\ UNCHANGED <<workerVars, connected, sock, elapsed, result, sent, histVars,
                   cphase, tx, uiVars, call, unitVars>>

NextCodec ==
    \/ codec_noise
    \/ codec_send
    \/ codec_receive

SpecCodec == InitCodec /\ [][NextCodec]_vars

(***************************************************************************)
(* The client on its own: the methods of a HuaweiSPPClient called in any   *)
(* order, with whatever the transport answers.                             *)
(***************************************************************************)
\* a value one byte longer than a length byte can announce
Value256 == [i \in 1..256 |-> 7]

ClientParams ==
    { <<>>,
      << <<1, <<1>> >> >>,
      << <<1, <<>> >>, <<2, <<40, 45, 99>> >> >>,
      << <<2, Value256>> >>,
      << <<1, <<1>> >>, <<2, Value256>> >> }

\* after HuaweiSPPClient.__init__
InitClient ==
    /\ running = TRUE
    /\ command_queue = <<>>
    /\ wpc = "done"
    /\ status = ""
    /\ battery = <<>>
    /\ connected = FALSE
    /\ sock = "None"
    /\ elapsed = 0
    /\ resp = NoPacket
    /\ result = NoResult
    /\ stream = <<>>
    /\ sent = <<>>
    /\ submitted = <<>>
    /\ nstarted = 0
    /\ cur = NoCmd
    /\ ioerr = FALSE
    /\ src = NoPacket
    /\ seen = 0
    /\ nstop = -1
    /\ cphase = "idle"
    /\ tx = NoTx
    /\ pre = <<>>
    /\ lastAvail = -1
    /\ buffered = TRUE
    /\ returned = {}
    /\ spp_worker = "None"
    /\ uipc = "idle"
    /\ call = NoCall
    /\ data = <<>>
    /\ fields = <<>>
    /\ out = NoOut
    /\ device = NoDevice
    /\ configured = DEVICE_ADDRESSES
    /\ scan = NoScan

\* the state a call finds
Found(name, how) ==
    [op |-> name, how |-> how, raised |-> FALSE, ret |-> "None", opened |-> FALSE,
     conn |-> connected, sk |-> sock, sent |-> sent]

client_connect ==
    /\ \E outcome \in Outcomes :
         LET c == connect(connected, sock, outcome)
         IN  /\ connected' = c.connected
             /\ sock' = c.sock
             /\ call' = [Found("connect", outcome) EXCEPT
                            !.ret = IF c.ret THEN "True" ELSE "False",
                            !.opened = c.opened]
    /\ UNCHANGED <<workerVars, elapsed, resp, result, wireVars, histVars,
                   codecVars, uiVars, unitVars>>

client_disconnect ==
    /\ \E close_ok \in BOOLEAN :
         LET d == disconnect(connected, sock, close_ok)
         IN  /\ connected' = d.connected
             /\ sock' = d.sock
             /\ call' = [Found("disconnect",
                                IF close_ok THEN "close_ok" ELSE "close_fails")
                            EXCEPT !.raised = d.raised]
    /\ UNCHANGED <<workerVars, elapsed, resp, result, wireVars, histVars,
                   codecVars, uiVars, unitVars>>

client_send_packet ==
    /\ \E cmd_id \in CodecCmdIds, params \in ClientParams, send_ok \in BOOLEAN :
         LET r == send_packet(connected, cmd_id, params, send_ok)
         IN  /\ sent' = IF r.raised THEN sent ELSE r.bytes
             /\ tx' = [cmd_id |-> cmd_id, params |-> params]
             /\ call' = [Found("send_packet", r.error) EXCEPT !.raised = r.raised]
    /\ UNCHANGED <<workerVars, clientVars, stream, histVars, cphase, pre,
                   lastAvail, buffered, returned, uiVars, unitVars>>

NextClient ==
    \/ client_connect
    \/ client_disconnect
    \/ client_send_packet

SpecClient == InitClient /\ [][NextClient]_vars

(***************************************************************************)
(* The functions on their own: crc16_xmodem and parse_battery_response     *)
(* applied to bytes drawn from sets.                                       *)
(***************************************************************************)
\* b"123456789"
Digits == <<49, 50, 51, 52, 53, 54, 55, 56, 57>>

CrcInputs == SeqsUpTo({0, 1, SYNC, 255}, 2) \cup {Digits}

ParseValues == {<<>>, <<99>>, <<1, 2>>, <<40, 45, 99>>, <<55, 60, 80, 7>>}
ParseParams == SeqsUpTo({<<t, v>> : t \in {1, 2, 3}, v \in ParseValues}, MaxFields)

\* battery responses whose field bytes are not whole fields: a type 2 field
\* that declares 3 bytes and has 1, a type byte alone, and a type byte after a
\* whole field
RespTruncated == <<90, 0, 6, 0, 1, 8, 2, 3, 40, 243, 81>>
RespTypeOnly == <<90, 0, 4, 0, 1, 8, 2, 14, 4>>
RespTrailing == <<90, 0, 9, 0, 1, 8, 2, 3, 40, 45, 99, 1, 91, 242>>
OddFrames == {RespTruncated, RespTypeOnly, RespTrailing}

InitUnit ==
    /\ running = TRUE
    /\ command_queue = <<>>
    /\ wpc = "done"
    /\ status = ""
    /\ battery = <<>>
    /\ connected = FALSE
    /\ sock = "None"
    /\ elapsed = 0
    /\ resp = NoPacket
    /\ result = NoResult
    /\ stream = <<>>
    /\ sent = <<>>
    /\ submitted = <<>>
    /\ nstarted = 0
    /\ cur = NoCmd
    /\ ioerr = FALSE
    /\ src = NoPacket
    /\ seen = 0
    /\ nstop = -1
    /\ cphase = "idle"
    /\ tx = NoTx
    /\ pre = <<>>
    /\ lastAvail = -1
    /\ buffered = TRUE
    /\ returned = {}
    /\ spp_worker = "None"
    /\ uipc = "idle"
    /\ call = NoCall
    /\ out = NoOut
    /\ device = NoDevice
    /\ configured = DEVICE_ADDRESSES
    /\ scan = NoScan
    /\ \/ fields = <<>> /\ data \in CrcInputs \cup OddFrames
       \/ fields \in ParseParams /\ data = BuildPacket(CMD_BATTERY, fields)

crc_call ==
    /\ out = NoOut
    /\ out' = [op |-> "crc16_xmodem", val |-> crc16_xmodem(data)]
    /\ UNCHANGED <<workerVars, clientVars, wireVars, histVars, codecVars, uiVars,
                   call, data, fields, scanVars>>

parse_call ==
    /\ out = NoOut
    /\ out' = [op |-> "parse_battery_response", val |-> parse_battery_response(data)]
    /\ UNCHANGED <<workerVars, clientVars, wireVars, histVars, codecVars, uiVars,
                   call, data, fields, scanVars>>

NextUnit ==
    \/ crc_call
    \/ parse_call

SpecUnit == InitUnit /\ [][NextUnit]_vars

(***************************************************************************)
(* The scanner: normalize_address, is_target_device, parse_battery_from_adv *)
(* and the detection callback of scan_devices, applied to advertisements   *)
(* drawn from sets.                                                        *)
(***************************************************************************)
Lowers ==
    <<"a", "b", "c", "d", "e", "f", "g", "h", "i", "j", "k", "l", "m", "n", "o", "p",
      "q", "r", "s", "t", "u", "v", "w", "x", "y", "z">>
Uppers ==
    <<"A", "B", "C", "D", "E", "F", "G", "H", "I", "J", "K", "L", "M", "N", "O", "P",
      "Q", "R", "S", "T", "U", "V", "W", "X", "Y", "Z">>

\* str.upper and str.lower, on ASCII text
upper(s) ==
    [i \in 1..Len(s) |->
        IF \E k \in 1..26 : Lowers[k] = s[i]
        THEN Uppers[CHOOSE k \in 1..26 : Lowers[k] = s[i]]
        ELSE s[i]]

lower(s) ==
    [i \in 1..Len(s) |->
        IF \E k \in 1..26 : Uppers[k] = s[i]
        THEN Lowers[CHOOSE k \in 1..26 : Uppers[k] = s[i]]
        ELSE s[i]]

\* s.replace(ch, "")
replace(s, ch) == SelectSeq(s, LAMBDA c : c # ch)

\* needle in hay, for two strings
Contains(hay, needle) ==
    \E i \in 0..(Len(hay) - Len(needle)) : Slice(hay, i, i + Len(needle)) = needle

\* x in list, for a list
InList(x, list) == \E i \in 1..Len(list) : list[i] = x

\* sep.join(pieces)
RECURSIVE Join(_, _)
Join(pieces, sep) ==
    IF Len(pieces) = 0 THEN <<>>
    ELSE IF Len(pieces) = 1 THEN pieces[1]
    ELSE pieces[1] \o sep \o Join(Tail(pieces), sep)

\* the 12 of range(0, 12, 2)
ADDR_LEN == 12

MutPiecesFive(clean_addr) ==
    [k \in 1..((ADDR_LEN \div 2) - 1) |-> Slice(clean_addr, 2 * (k - 1), 2 * k)]

\* clean_addr[i:i+2] for i in range(0, 12, 2)
Pieces(clean_addr) ==
    [k \in 1..(ADDR_LEN \div 2) |-> Slice(clean_addr, 2 * (k - 1), 2 * k)]

normalize_address(address) ==
    LET clean_addr == upper(replace(replace(address, ":"), "-"))
    IN  <<Join(Pieces(clean_addr), <<":">>), Join(Pieces(clean_addr), <<"-">>), clean_addr>>

\* FreeBudsWindow.is_target_device, with DEVICE_ADDRESSES as given
is_target_device(dev, addresses) ==
    IF dev.name = <<>> /\ dev.address = <<>> THEN FALSE
    ELSE LET device_addresses == normalize_address(dev.address)
         IN  \/ \E a \in 1..Len(addresses) : InList(addresses[a], device_addresses)
             \/ /\ dev.name # <<>>
                /\ \E n \in 1..Len(DEVICE_NAMES) :
                        Contains(lower(dev.name), lower(DEVICE_NAMES[n]))

\* the local is_target of detection_callback
IsTarget(dev, addresses) ==
    LET by_address ==
            /\ dev.address # <<>>
            /\ \E a \in 1..Len(addresses) :
                    InList(normalize_address(addresses[a])[3], normalize_address(dev.address))
    IN  \/ by_address
        \/ /\ ~by_address
           /\ dev.name # <<>>
           /\ \E n \in 1..Len(DEVICE_NAMES) : Contains(dev.name, DEVICE_NAMES[n])

\* None, as parse_battery_from_adv returns it
NoReading == <<>>

\* valid_l, valid_r, valid_c: 0..100 or 255
Valid(x) == (0 <= x /\ x <= 100) \/ x = 255

MutHasValueAlways(l, r, c) == TRUE

\* has_value: at least one of the three is a level
HasValue(l, r, c) ==
    \/ 0 <= l /\ l <= 100
    \/ 0 <= r /\ r <= 100
    \/ 0 <= c /\ c <= 100

MutAllowListedHuaweiOnly(cid) == cid = HUAWEI_COMPANY_ID

\* cid == 0x0156 or cid == 0x025D
AllowListed(cid) == cid = HUAWEI_COMPANY_ID \/ cid = 605

\* the loop over i in range(len(data_bytes) - 2), from i on
RECURSIVE ScanWindows(_, _, _)
ScanWindows(cid, data_bytes, i) ==
    IF i >= Len(data_bytes) - 2 THEN NoReading
    ELSE LET l == data_bytes[i + 1]
             r == data_bytes[i + 2]
             c == data_bytes[i + 3]
         IN  IF Valid(l) /\ Valid(r) /\ Valid(c) /\ HasValue(l, r, c) /\ AllowListed(cid)
             THEN <<l, r, c>>
             ELSE ScanWindows(cid, data_bytes, i + 1)

\* parse_battery_from_adv: manufacturer_data is the dict's items in order,
\* each <<cid, data>>
RECURSIVE parse_battery_from_adv(_)
parse_battery_from_adv(manufacturer_data) ==
    IF manufacturer_data = <<>> THEN NoReading
    ELSE LET cid == manufacturer_data[1][1]
             data_bytes == manufacturer_data[1][2]
             found == IF Len(data_bytes) < 7 THEN NoReading
                      ELSE ScanWindows(cid, data_bytes, 0)
         IN  IF found # NoReading THEN found
             ELSE parse_battery_from_adv(Tail(manufacturer_data))

AddrLower == <<"9", "0", ":", "f", "6", ":", "4", "4", ":", "a", "a", ":", "e", "e", ":", "6", "7">>
AddrBareLower == <<"9", "0", "f", "6", "4", "4", "a", "a", "e", "e", "6", "7">>
AddrMixed == <<"9", "0", "-", "f", "6", ":", "4", "4", "a", "A", "-", "E", "E", ":", "6", "7">>
AddrOdd == <<"9", "0", "f">>

\* device.address: none, the target in every spelling, and after them another
\* device, 2 octets, 7 octets bare and 7 octets with colons
Addresses ==
    {<<>>,
     AddrColon,
     AddrHyphen,
     AddrBare,
     AddrLower,
     AddrBareLower,
     AddrMixed,
     AddrOdd,
     <<"1", "1", ":", "2", "2", ":", "3", "3", ":", "4", "4", ":", "5", "5", ":", "6", "6">>,
     <<"9", "0", ":", "F", "6">>,
     <<"9", "0", "F", "6", "4", "4", "A", "A", "E", "E", "6", "7", "0", "0">>,
     <<"9", "0", ":", "f", "6", ":", "4", "4", ":", "a", "a", ":", "e", "e", ":", "6", "7", ":", "0", "0">>}

\* device.name: none, the configured names, and after them one in lower case,
\* one in upper case, one inside a longer name and another product
Names ==
    {<<>>, NameFull, NameShort,
     <<"f", "r", "e", "e", "b", "u", "d", "s", " ", "s", "e", " ", "2">>,
     <<"H", "U", "A", "W", "E", "I", " ", "F", "R", "E", "E", "B", "U", "D", "S", " ", "S", "E", " ", "2">>,
     <<"M", "y", " ", "F", "r", "e", "e", "B", "u", "d", "s", " ", "S", "E", " ", "2", " ", "(", "L", ")">>,
     <<"F", "r", "e", "e", "B", "u", "d", "s", " ", "5", "i">>}

\* DEVICE_ADDRESSES as shipped, and the same device written in one other way
Configurations ==
    {DEVICE_ADDRESSES, <<AddrColon>>, <<AddrBare>>, <<AddrLower>>, <<AddrBareLower>>,
     <<AddrMixed>>}

\* manufacturer payloads: too short, a reading at once, a reading at index
\* 2, a reading in the last window
PayloadShort == <<55, 60, 80, 1, 2, 3>>
PayloadFirst == <<55, 60, 80, 255, 255, 255, 255>>
PayloadLate == <<1, 150, 255, 255, 70, 255, 255, 40>>
PayloadLast == <<200, 200, 200, 200, 100, 0, 255>>

\* and after them: all unknown, no level at all, 101 in every window
Payloads ==
    {PayloadShort,
     PayloadFirst,
     PayloadLate,
     PayloadLast,
     <<255, 255, 255, 255, 255, 255, 255>>,
     <<150, 200, 101, 254, 150, 200, 150>>,
     <<101, 0, 101, 100, 101, 255, 101>>}

\* Huawei, the second allow-listed id, Apple
CompanyIds == {HUAWEI_COMPANY_ID, 605, 76}

\* a dict with up to MaxEntries keys, in every insertion order
ManufacturerData ==
    {m \in SeqsUpTo(CompanyIds \X Payloads, MaxEntries) :
        \A i, j \in 1..Len(m) : i # j => m[i][1] # m[j][1]}

\* devices of every address and name, with few payloads
Devices ==
    {[address |-> a, name |-> n, mdata |-> m] :
        a \in Addresses, n \in Names,
        m \in {<<>>, << <<HUAWEI_COMPANY_ID, PayloadLate>> >>, << <<76, PayloadFirst>> >>}}

\* the target device, with every payload
Adverts == {[address |-> AddrColon, name |-> <<>>, mdata |-> m] : m \in ManufacturerData}

InitScan ==
    /\ running = TRUE
    /\ command_queue = <<>>
    /\ wpc = "done"
    /\ status = ""
    /\ battery = <<>>
    /\ connected = FALSE
    /\ sock = "None"
    /\ elapsed = 0
    /\ resp = NoPacket
    /\ result = NoResult
    /\ stream = <<>>
    /\ sent = <<>>
    /\ submitted = <<>>
    /\ nstarted = 0
    /\ cur = NoCmd
    /\ ioerr = FALSE
    /\ src = NoPacket
    /\ seen = 0
    /\ nstop = -1
    /\ cphase = "idle"
    /\ tx = NoTx
    /\ pre = <<>>
    /\ lastAvail = -1
    /\ buffered = TRUE
    /\ returned = {}
    /\ spp_worker = "None"
    /\ uipc = "idle"
    /\ call = NoCall
    /\ data = <<>>
    /\ fields = <<>>
    /\ out = NoOut
    /\ \/ device \in Devices /\ configured \in Configurations
       \/ device \in Adverts /\ configured = DEVICE_ADDRESSES
    /\ scan = NoScan

normalize_call ==
    /\ scan.op = ""
    /\ scan' = [op |-> "normalize_address", ret |-> normalize_address(device.address),
                signal |-> <<>>]
    /\ UNCHANGED <<workerVars, clientVars, wireVars, histVars, codecVars, uiVars,
                   call, data, fields, out, device, configured>>

is_target_call ==
    /\ scan.op = ""
    /\ scan' = [op |-> "is_target_device", ret |-> is_target_device(device, configured),
                signal |-> <<>>]
    /\ UNCHANGED <<workerVars, clientVars, wireVars, histVars, codecVars, uiVars,
                   call, data, fields, out, device, configured>>

parse_adv_call ==
    /\ scan.op = ""
    /\ scan' = [op |-> "parse_battery_from_adv",
                ret |-> parse_battery_from_adv(device.mdata), signal |-> <<>>]
    /\ UNCHANGED <<workerVars, clientVars, wireVars, histVars, codecVars, uiVars,
                   call, data, fields, out, device, configured>>

\* the callback BleakScanner calls for an advertisement; signal is what
\* battery_signal.emit was given (<<>>: nothing was emitted)
detection_callback ==
    /\ scan.op = ""
    /\ LET is_target == IsTarget(device, configured)
           bat_info == parse_battery_from_adv(device.mdata)
       IN  scan' = [op |-> "detection_callback", ret |-> is_target,
                    signal |-> IF is_target /\ bat_info # NoReading
                               THEN bat_info ELSE <<>>]
    /\ UNCHANGED <<workerVars, clientVars, wireVars, histVars, codecVars, uiVars,
                   call, data, fields, out, device, configured>>

NextScan ==
    \/ normalize_call
    \/ is_target_call
    \/ parse_adv_call
    \/ detection_callback

SpecScan == InitScan /\ [][NextScan]_vars

(***************************************************************************)
(* The claims.                                                             *)
(***************************************************************************)

\* C1: commands are executed in the order they were submitted, one at a time:
\* the k-th command run() dequeues is the k-th command handed to
\* queue_command, and it is dequeued only when the one before it has finished
\* (the count is of one worker: a new worker starts again at 0).
C1_FifoOneInFlight ==
    [][nstarted' > nstarted =>
         /\ nstarted' = nstarted + 1
         /\ cur = NoCmd
         /\ nstarted' <= Len(submitted)
         /\ cur' = submitted[nstarted']]_vars

\* two different commands were submitted and the second is in flight
C1_Witness ==
    /\ nstarted = 2
    /\ submitted[1] # submitted[2]
    /\ cur = submitted[2]

\* C2: whatever way queue_command interleaves with the test and the pop of
\* run(), the queue holds exactly the submitted commands not yet dequeued, in
\* submission order: none lost, none twice, none out of order.
C2_QueueConserved ==
    /\ nstarted <= Len(submitted)
    /\ command_queue = SubSeq(submitted, nstarted + 1, Len(submitted))

\* a command was appended between the test of the queue and the pop
C2_Witness ==
    /\ wpc = "pop"
    /\ Len(command_queue) > seen

RECURSIVE FieldBytes(_, _)
FieldBytes(params, i) ==
    IF i > Len(params) THEN 0
    ELSE 2 + Len(params[i][2]) + FieldBytes(params, i + 1)

\* C3: a receive_packet call that finds exactly the bytes of a send_packet
\* call, all of them arrived, returns a packet with the same command id and,
\* walked as TLV, the same fields; its length field is 1 + 2 + the bytes of
\* the fields, which is what lies between the length field and the checksum.
C3_RoundTrip ==
    (cphase = "sent" /\ lastAvail >= 0 /\ pre = sent /\ lastAvail = Len(pre)) =>
        /\ resp # NoPacket
        /\ Slice(resp, 4, 6) = tx.cmd_id
        /\ TlvFields(resp, 6) = tx.params
        /\ UnpackU16(resp) = 1 + 2 + FieldBytes(tx.params, 1)
        /\ UnpackU16(resp) = Len(resp) - 3 - 2

\* a packet with two different fields made the round trip
C3_Witness ==
    /\ cphase = "sent"
    /\ pre = sent
    /\ lastAvail = Len(pre)
    /\ resp = sent
    /\ Len(tx.params) = 2
    /\ tx.params[1] # tx.params[2]

\* C4 (as claimed): whatever precedes a valid packet on the stream, repeated
\* receive_packet calls return the packet: once the whole stream, which had
\* arrived before each call, has been read, the packet has been returned.
C4_Resynchronizes ==
    (cphase = "sent" /\ buffered /\ lastAvail >= 0 /\ stream = <<>>) =>
        sent \in returned

\* C5: a receive_packet call that gets a valid 4-byte header and then fewer
\* than length - 1 + 2 further bytes before the read gives up returns None,
\* having taken what arrived off the stream.
C5_IncompleteIsNone ==
    (lastAvail >= 4 /\ pre[1] = SYNC /\ lastAvail - 4 < UnpackU16(pre) - 1 + 2) =>
        /\ resp = NoPacket
        /\ stream = Drop(pre, lastAvail)

\* the header and a part of the body of a sent packet arrived, not the rest
C5_Witness ==
    /\ pre = sent
    /\ lastAvail >= 5
    /\ lastAvail < Len(sent)
    /\ resp = NoPacket

\* C6: when get_battery returns a reading, the reading is the parse of the
\* packet received last, and the command id of that packet is 01 08; while it
\* waits it has returned nothing.
C6_OnlyBatteryPackets ==
    /\ (wpc = "gb_ret" /\ Truthy(result)) =>
           /\ src = resp
           /\ Len(src) >= 6
           /\ Slice(src, 4, 6) = CMD_BATTERY
           /\ result = parse_battery_response(src)
    /\ wpc \in {"gb_loop", "gb_recv"} => (result = NoResult /\ src = NoPacket)

\* a packet of another command was received and the wait went on
C6_Witness ==
    /\ wpc = "gb_loop"
    /\ resp = RespOther
    /\ elapsed < WINDOW

\* C7: a battery query that has been sent always returns, whatever the peer
\* sends and however the reads end: a reading, or None when the window is over.
C7_QueryTerminates ==
    (wpc \in {"gb_loop", "gb_recv"}) ~>
        (/\ wpc = "gb_ret"
         /\ result = NoResult => elapsed >= WINDOW
         /\ result # NoResult => Truthy(result))

\* the window ran out on a packet of another command: None is returned
C7_Witness ==
    /\ wpc = "gb_ret"
    /\ result = NoResult
    /\ elapsed >= WINDOW
    /\ resp = RespOther

\* C8 (as claimed): when a send or a recv failed while a command executed on
\* a connected session, the command ends with a failure status and the
\* session disconnected.
C8_FailureDisconnects ==
    (wpc = "sleep" /\ ioerr) =>
        /\ status \in {"command_failed", "read_failed"}
        /\ ~connected

\* C9: an exception raised by a command is answered with the status
\* "command_failed" and the loop goes on: the worker neither dies nor stops.
C9_ExceptionNotFatal ==
    [][/\ wpc' # "crashed"
       /\ (wpc = "except" /\ wpc' # wpc) =>
              /\ wpc' = "sleep"
              /\ status' = "command_failed"
              /\ running' = running
              /\ connected' = connected]_vars

\* after a command that raised, the next one is being executed
C9_Witness ==
    /\ status = "command_failed"
    /\ wpc = "ll_recv"
    /\ nstarted = 2

\* C10: once stop() is called on a connected worker in its loop, the worker
\* ends: no command is left in flight, the client is disconnected and the
\* last status is "disconnected".
C10_CooperativeStop ==
    (~running /\ connected /\ wpc \notin {"start", "done"}) ~>
        (/\ wpc = "done"
         /\ cur = NoCmd
         /\ ~connected
         /\ sock = "None"
         /\ status = "disconnected")

\* stop() was called while a battery query waits for its response
C10_Witness ==
    /\ ~running
    /\ connected
    /\ cur # NoCmd
    /\ wpc = "gb_recv"

SockStates == {"None", "open", "closed"}

C12_NextToggleConnects ==
    [][(/\ status = "connect_failed"
        /\ wpc = "done"
        /\ uipc = "idle"
        /\ (running' # running \/ spp_worker' # spp_worker))
       => (spp_worker' = "worker" /\ running' /\ wpc' = "start")]_vars

\* C13: disconnect() never raises and leaves the client not connected and
\* without a socket, whatever state it is called in and whether or not
\* close() raises; called on a client that is already so, it changes nothing.
C13_DisconnectIdempotent ==
    call.op = "disconnect" =>
        /\ ~call.raised
        /\ ~connected
        /\ sock = "None"
        /\ sent = call.sent
        /\ (~call.conn /\ call.sk = "None") =>
               (connected = call.conn /\ sock = call.sk)

\* disconnect() on a connected client whose close() raises
C13_Witness ==
    /\ call.op = "disconnect"
    /\ call.how = "close_fails"
    /\ call.conn
    /\ call.sk = "open"

\* the fields params[i..] lie in bytes from Python offset off on, each as its
\* type byte, its length byte and its value
RECURSIVE FieldsAt(_, _, _, _)
FieldsAt(bytes, params, i, off) ==
    IF i > Len(params) THEN TRUE
    ELSE LET v == params[i][2]
         IN  /\ bytes[off + 1] = params[i][1]
             /\ bytes[off + 2] = Len(v)
             /\ Slice(bytes, off + 2, off + 2 + Len(v)) = v
             /\ FieldsAt(bytes, params, i + 1, off + 2 + Len(v))

\* C14: the bytes send_packet has just written are 0x5A, the length as two
\* bytes big endian, 0x00, the command id, every field as type, length, value,
\* and the checksum of all the bytes before it; the length is 1 + 2 + the
\* bytes of the fields.
C14_PacketLayout ==
    (cphase = "sent" /\ lastAvail = -1) =>
        LET n == FieldBytes(tx.params, 1)
        IN  /\ Len(sent) = 1 + 2 + 1 + 2 + n + 2
            /\ sent[1] = 90
            /\ sent[2] \in 0..255 /\ sent[3] \in 0..255
            /\ sent[2] * 256 + sent[3] = 1 + 2 + n
            /\ sent[4] = 0
            /\ <<sent[5], sent[6]>> = tx.cmd_id
            /\ FieldsAt(sent, tx.params, 1, 6)
            /\ Slice(sent, 6 + n, 6 + n + 2) = crc16_xmodem(Slice(sent, 0, 6 + n))

\* a packet of two fields, the first with a value, was just sent
C14_Witness ==
    /\ cphase = "sent"
    /\ lastAvail = -1
    /\ Len(tx.params) = 2
    /\ tx.params[1][2] = <<40, 45, 99>>
    /\ tx.params[2][2] = <<>>

\* the battery query as claimed and as amended, each with the CRC-16/XMODEM
\* of its 12 bytes: AD 08 and FB B9
QueryPacket06 == <<90, 0, 6, 0, 1, 8, 1, 0, 2, 0, 3, 0, 173, 8>>
QueryPacket09 == <<90, 0, 9, 0, 1, 8, 1, 0, 2, 0, 3, 0, 251, 185>>

\* C15 (as claimed): the bytes get_battery sends are 5A 00 06 00 01 08 01 00
\* 02 00 03 00 and their checksum.
C15_QueryBytes ==
    (cur # NoCmd /\ wpc \in {"gb_loop", "gb_recv", "gb_ret"}) =>
        sent = QueryPacket06

\* C15 (amended): the bytes get_battery sends are 5A 00 09 00 01 08 01 00 02
\* 00 03 00 and their checksum: the length byte is 09, 1 + 2 + the 6 bytes of
\* the three fields.
C15_QueryBytesAmended ==
    (cur # NoCmd /\ wpc \in {"gb_loop", "gb_recv", "gb_ret"}) =>
        sent = QueryPacket09

\* a battery query was sent after a low latency command had sent its packet
C15_Witness ==
    /\ wpc = "gb_loop"
    /\ nstarted = 2
    /\ submitted[1][1] = "set_low_latency"
    /\ cur[1] = "get_battery"
    /\ Len(sent) = 14

\* C16: send_packet with a field value longer than 255 bytes raises, and
\* nothing was sent and the client is as it was.
C16_FieldTooLarge ==
    (/\ call.op = "send_packet"
     /\ \E i \in 1..Len(tx.params) : Len(tx.params[i][2]) > 255) =>
        /\ call.raised
        /\ sent = call.sent
        /\ connected = call.conn
        /\ sock = call.sk

\* on a connected client that has sent a packet before, struct.pack raised
C16_Witness ==
    /\ call.op = "send_packet"
    /\ call.conn
    /\ call.how = "struct"
    /\ Len(tx.params) = 2
    /\ call.sent # <<>>
    /\ sent = call.sent

\* C17: crc16_xmodem of no bytes is 00 00, and of the nine bytes "123456789"
\* it is 31 C3, the high byte first.
C17_CrcVectors ==
    out.op = "crc16_xmodem" =>
        /\ data = <<>> => out.val = <<0, 0>>
        /\ data = <<49, 50, 51, 52, 53, 54, 55, 56, 57>> => out.val = <<49, 195>>
        /\ Len(out.val) = 2

\* the checksum of "123456789" was computed
C17_Witness ==
    /\ out.op = "crc16_xmodem"
    /\ data = Digits
    /\ out.val # <<0, 0>>

\* the indices of the fields of type t whose value has at least n bytes
FieldsOfType(fs, t, n) == {i \in 1..Len(fs) : fs[i][1] = t /\ Len(fs[i][2]) >= n}

Last(S) == CHOOSE i \in S : \A j \in S : j <= i

\* the bytes v, at most 4, read as one number, the first byte the highest
BigEndian(v) ==
    IF Len(v) = 0 THEN 0
    ELSE IF Len(v) = 1 THEN v[1]
    ELSE IF Len(v) = 2 THEN v[1] * 256 + v[2]
    ELSE IF Len(v) = 3 THEN v[1] * 65536 + v[2] * 256 + v[3]
    ELSE v[1] * 16777216 + v[2] * 65536 + v[3] * 256 + v[4]

\* C18: parse_battery_response of a framed response with the fields fs gives
\* left, right, case = the first three bytes of the value of a type 2 field of
\* at least 3 bytes (the last one, when several), global = the value of a
\* type 1 field as a big-endian number (the last one), and nothing else: with
\* no field, or only fields of other types, the reading is empty.
C18_ParseFields ==
    (out.op = "parse_battery_response" /\ data = BuildPacket(<<1, 8>>, fields)) =>
        LET d  == out.val.d
            t2 == FieldsOfType(fields, 2, 3)
            t1 == FieldsOfType(fields, 1, 0)
        IN  /\ ~out.val.none
            /\ DOMAIN d = (IF t2 # {} THEN {"left", "right", "case"} ELSE {})
                             \cup (IF t1 # {} THEN {"global"} ELSE {})
            /\ t2 # {} =>
                   LET v == fields[Last(t2)][2]
                   IN  d["left"] = v[1] /\ d["right"] = v[2] /\ d["case"] = v[3]
            /\ t1 # {} => d["global"] = BigEndian(fields[Last(t1)][2])

\* a response with a global field and a left, right, case field was parsed
C18_Witness ==
    /\ out.op = "parse_battery_response"
    /\ fields = << <<1, <<1, 2>> >>, <<2, <<55, 60, 80, 7>> >> >>
    /\ out.val.d["global"] = 258
    /\ out.val.d["case"] = 80

\* the battery responses of the peer that carry no field at all
NoFieldFrames == {RespEmpty, RespShort}

\* what run() does with the result of the query: the battery notification
\* and the status of success when the query ended on the response with a left,
\* right, case field, the status of failure and no notification otherwise
ReportsQuery ==
    (wpc = "gb_ret" /\ wpc' = "sleep") =>
        IF src \in {RespBattery, RespHigh}
        THEN status' = "battery_updated" /\ battery' = Slice(src, 8, 11)
        ELSE status' = "read_failed" /\ battery' = battery

C20_LowLatency ==
    [][/\ (wpc = "ll_send" /\ wpc' # "ll_send") =>
              \/ wpc' = "except" /\ sent' = sent
              \/ /\ wpc' = "ll_recv"
                 /\ stream' = stream
                 /\ sent' = IF cur[2] = "True"
                            THEN <<90, 0, 6, 0, 43, 108, 1, 1, 1, 164, 17>>
                            ELSE <<90, 0, 6, 0, 43, 108, 1, 1, 0, 180, 48>>
       /\ (wpc = "ll_recv" /\ wpc' # "ll_recv") =>
              /\ wpc' = "ll_ret"
              /\ sent' = sent
              /\ \/ resp' = NoPacket
                 \/ resp' \o stream' = stream /\ resp'[1] = 90
       /\ (wpc = "ll_ret" /\ wpc' # "ll_ret") =>
              /\ wpc' = "sleep"
              /\ sent' = sent
              /\ stream' = stream
              /\ status' = IF cur[2] = "True"
                           THEN "low_latency_on" ELSE "low_latency_off"]_vars

\* the one read of set_low_latency(True) returned a battery response
C20_Witness ==
    /\ wpc = "ll_ret"
    /\ cur = <<"set_low_latency", "True">>
    /\ resp = RespBattery
\* the window of three bytes at index i of a payload
Window(payload, i) == <<payload[i + 1], payload[i + 2], payload[i + 3]>>

\* the battery levels, and the windows the heuristic accepts
Levels == 0..100
Acceptable(w) ==
    /\ \A k \in 1..3 : w[k] \in Levels \cup {255}
    /\ \E k \in 1..3 : w[k] \in Levels

\* the indexes of the acceptable windows of a payload of at least 7 bytes
AcceptableAt(payload) ==
    IF Len(payload) < 7 THEN {}
    ELSE {i \in 0..(Len(payload) - 3) : Acceptable(Window(payload, i))}

\* C21: a triple the broadcast heuristic returns is a window of three
\* consecutive bytes of a manufacturer payload of at least 7 bytes whose id is
\* 0x0156 or 0x025D, every byte in 0..100 or 255 and at least one in 0..100;
\* when every payload is shorter than 7 bytes or has only windows that are all
\* 255 or hold a byte in 101..254, nothing is returned.
C21_HeuristicReadings ==
    scan.op = "parse_battery_from_adv" =>
        /\ scan.ret # NoReading =>
               \E e \in 1..Len(device.mdata) :
                   LET cid == device.mdata[e][1]
                       payload == device.mdata[e][2]
                   IN  /\ cid \in {342, 605}
                       /\ Len(payload) >= 7
                       /\ \E i \in 0..(Len(payload) - 3) :
                              /\ scan.ret = Window(payload, i)
                              /\ \A k \in 1..3 : scan.ret[k] \in Levels \cup {255}
                              /\ \E k \in 1..3 : scan.ret[k] \in Levels
        /\ (\A e \in 1..Len(device.mdata) :
               LET payload == device.mdata[e][2]
               IN  \/ Len(payload) < 7
                   \/ \A i \in 0..(Len(payload) - 3) :
                          \/ Window(payload, i) = <<255, 255, 255>>
                          \/ \E k \in 1..3 : Window(payload, i)[k] \in 101..254)
           => scan.ret = NoReading

\* a reading taken from the last window of a payload, next to a short payload
C21_Witness ==
    /\ scan.op = "parse_battery_from_adv"
    /\ device.mdata = << <<605, PayloadShort>>, <<HUAWEI_COMPANY_ID, PayloadLast>> >>
    /\ scan.ret = <<100, 0, 255>>

\* the entries of an advertisement the heuristic can take a reading from
Readable(mdata) ==
    {e \in 1..Len(mdata) : mdata[e][1] \in {342, 605} /\ AcceptableAt(mdata[e][2]) # {}}

\* C22: for a payload of at least 7 bytes from an allow-listed id that has an
\* acceptable window the heuristic returns the acceptable window with the
\* lowest index (of the first such payload, when the advertisement has several);
\* a payload whose id is not allow-listed gives no reading whatever its bytes.
C22_LowestWindow ==
    scan.op = "parse_battery_from_adv" =>
        LET ok == Readable(device.mdata)
        IN  IF ok = {} THEN scan.ret = NoReading
            ELSE LET e == CHOOSE x \in ok : \A y \in ok : x <= y
                     payload == device.mdata[e][2]
                     i == CHOOSE x \in AcceptableAt(payload) :
                              \A y \in AcceptableAt(payload) : x <= y
                 IN  scan.ret = Window(payload, i)

\* the reading is the window at index 2 although the one at index 3 is
\* acceptable too, and the payload of the other id before it is skipped
C22_Witness ==
    /\ scan.op = "parse_battery_from_adv"
    /\ device.mdata = << <<76, PayloadFirst>>, <<605, PayloadLate>> >>
    /\ AcceptableAt(PayloadLate) = {2, 3, 4, 5}
    /\ scan.ret = <<255, 255, 70>>

\* C23: normalization is idempotent: normalizing any of the three forms
\* derived from any address gives the same three forms as normalizing the
\* address itself.
C23_Idempotent ==
    scan.op = "normalize_address" =>
        \A k \in 1..3 : normalize_address(scan.ret[k]) = scan.ret

\* C23 for the addresses the function is written for: those with at most 12
\* characters besides the separators.
C23_IdempotentUpTo12 ==
    (scan.op = "normalize_address" /\ Len(scan.ret[3]) <= 12) =>
        \A k \in 1..3 : normalize_address(scan.ret[k]) = scan.ret

\* a lower-case address with both separators was normalized, and a short one
C23_Witness ==
    /\ scan.op = "normalize_address"
    /\ \/ device.address = AddrMixed /\ scan.ret = <<AddrColon, AddrHyphen, AddrBare>>
       \/ device.address = AddrOdd /\ scan.ret[3] = <<"9", "0", "F">>

\* the two places that decide whether a broadcaster is the target
Deciders == {"is_target_device", "detection_callback"}

\* C24: a device whose address equals a configured address after
\* normalization is matched, whichever form (colon, hyphen, bare) or letter
\* case the configured string has.
C24_AnyConfiguredForm ==
    (/\ scan.op \in Deciders
     /\ \E a \in 1..Len(configured) :
            normalize_address(configured[a]) = normalize_address(device.address))
        => scan.ret = TRUE

\* C25: a device whose name contains a configured name, compared without
\* regard to case, is the target, in is_target_device and in the detection
\* callback alike.
C25_NameAnyCase ==
    (/\ scan.op \in Deciders
     /\ device.name # <<>>
     /\ \E n \in 1..Len(DEVICE_NAMES) :
            Contains(lower(device.name), lower(DEVICE_NAMES[n])))
        => scan.ret = TRUE

\* C26: every battery triple handed to the presentation layer, by
\* battery_received on the active path or battery_signal on the broadcast
\* path, has each of left, right and case in 0..100 or equal to 255.
C26_DeliveredInRange ==
    /\ battery # <<>> => \A k \in 1..3 : battery[k] \in Levels \cup {255}
    /\ (scan.op = "detection_callback" /\ scan.signal # <<>>) =>
           \A k \in 1..3 : scan.signal[k] \in Levels \cup {255}

\* C27: a single packet read waits no longer than what is left of the 3-second
\* window of the battery query, so get_battery returns no later than the end
\* of the window.
C27_ReturnsWithinWindow ==
    wpc = "gb_ret" => elapsed <= WINDOW

\* a packet as receive_packet returns it: 0x5A, and as many bytes after the
\* header as the length field says
IsFrame(packet) ==
    /\ Len(packet) >= 4
    /\ packet[1] = SYNC
    /\ Len(packet) = 4 + (UnpackU16(packet) - 1) + 2

\* C28: the scan of the fields stops before the 2 checksum bytes: for every
\* packet receive_packet can return, whatever its field lengths say, no type,
\* length or value byte is read from the last 2 bytes or from beyond the end.
C28_StopsBeforeChecksum ==
    (out.op = "parse_battery_response" /\ IsFrame(data)) =>
        TlvReads(data, 6) \subseteq 0..(Len(data) - 3)

\* C29: every packet receive_packet returns starts with 0x5A and has exactly
\* 4 + (declared length - 1) + 2 bytes.
C29_ReturnedIsFramed ==
    /\ resp # NoPacket =>
           /\ resp[1] = SYNC
           /\ Len(resp) = 4 + (UnpackU16(resp) - 1) + 2
    /\ \A p \in returned : IsFrame(p)

\* a packet was returned whose 7 bytes are what its length field 2 asks for,
\* cut out of a longer stream
C29_Witness ==
    /\ lastAvail = Len(pre)
    /\ Len(pre) > 7
    /\ resp # NoPacket
    /\ UnpackU16(resp) = 2
    /\ Len(resp) = 7

\* C30: receive_packet returns every frame that begins with 0x5A and has
\* arrived completely, as it was received, whatever its checksum bytes and its
\* command id are, and raises for neither.
C30_LenientReceive ==
    (/\ cphase = "sent"
     /\ lastAvail >= 4
     /\ pre[1] = SYNC
     /\ lastAvail >= 4 + (UnpackU16(pre) - 1) + 2) =>
        /\ ~receive_packet(connected, pre, lastAvail).raised
        /\ resp = Slice(pre, 0, 4 + (UnpackU16(pre) - 1) + 2)
        /\ stream = Drop(pre, Len(resp))

\* a frame was returned whose last 2 bytes are not the checksum of the others
\* and whose command id is none the client knows
C30_Witness ==
    /\ cphase = "sent"
    /\ lastAvail = Len(pre)
    /\ Slice(pre, 0, 4) = <<SYNC, 0, 2, 0>>
    /\ resp = Slice(pre, 0, 7)
    /\ Slice(resp, 4, 6) \notin {CMD_BATTERY, CMD_LOW_LATENCY}
    /\ crc16_xmodem(Slice(resp, 0, 5)) # Slice(resp, 5, 7)

\* C31: on a worker that connected and whose stop() is never called, every
\* command handed to queue_command is popped and its handler ends: the n-th
\* command submitted does not stay in the queue forever.
C31_EveryCommandExecuted ==
    \A n \in 1..MaxLiveCmds :
        (running /\ wpc \notin {"start", "done"} /\ Len(submitted) >= n) ~>
            (\/ ~running
             \/ nstarted > n
             \/ nstarted = n /\ cur = NoCmd)

\* a command submitted while the worker slept was executed, stop() not called
C31_Witness ==
    /\ running
    /\ connected
    /\ Len(submitted) = 1
    /\ nstarted = 1
    /\ cur = NoCmd
    /\ command_queue = <<>>
    /\ status \in {"battery_updated", "read_failed", "latency_on", "latency_off",
                   "command_failed"}

\* C32: once stop() has been called the worker begins at most one further
\* command before it disconnects, and once run() has returned no command is
\* begun and nothing is sent, whatever is still in the queue.
C32_AtMostOneAfterStop ==
    [][/\ ~running' => nstarted' <= nstop' + 1
       /\ (wpc = "done" /\ wpc' = "done") =>
              (nstarted' = nstarted /\ sent' = sent)]_vars

\* stop() came between the test of self.running and the pop: one command was
\* begun after it, the worker disconnected, and a command is left in the queue
C32_Witness ==
    /\ ~running
    /\ nstarted = nstop + 1
    /\ wpc = "done"
    /\ status = "disconnected"
    /\ command_queue # <<>>

\* C33: after any sequence of connect and disconnect calls, succeeding or
\* failing, the client is connected exactly when it holds an open socket: a
\* client that is not connected holds no socket or a closed one, a connected
\* client holds a socket.
C33_ConnectedIffOpen ==
    /\ connected <=> sock = "open"
    /\ connected => sock # "None"
    /\ ~connected => sock \in {"None", "closed"}
    /\ (call.op = "connect" /\ call.ret = "False") => sock # "open"
    /\ call.op = "disconnect" => sock = "None"

\* a connect succeeded on a client that still held the closed socket of a
\* failed attempt
C33_Witness ==
    /\ call.op = "connect"
    /\ call.how = "ok"
    /\ ~call.conn
    /\ call.sk = "closed"
    /\ connected
    /\ sock = "open"

\* C34: the CRC of a byte sequence followed by its own 2 checksum bytes is
\* 00 00, and so is the CRC of a whole packet as send_packet builds it, its
\* checksum included.
C34_ZeroResidue ==
    out.op = "crc16_xmodem" =>
        /\ crc16_xmodem(data \o out.val) = <<0, 0>>
        /\ data = BuildPacket(CMD_BATTERY, fields) => out.val = <<0, 0>>

\* the checksum of a whole packet with two fields was computed
C34_Witness ==
    /\ out.op = "crc16_xmodem"
    /\ Len(fields) = 2
    /\ Len(data) > 10
    /\ data[1] = SYNC
    /\ out.val = <<0, 0>>

====
